---- MODULE Spec2Model ----
(***************************************************************************)
(* Model of src/utils/markdownParser.ts.  The file holds two programs:     *)
(*   - the exported parseMarkdown (lines 14-50): a stack-based outline     *)
(*     folder followed by convertToMindMap;                                *)
(*   - the App module (lines 51-350): its own parseMarkdown with           *)
(*     parseLine and a two-pass layout, and the React component whose      *)
(*     onNodeClick / useEffect pair drives what is displayed.              *)
(* Text is modelled as sequences of one-character strings, objects as      *)
(* entries of an arena indexed by the order in which the code creates      *)
(* them (so an index is also the position of the node's line).             *)
(***************************************************************************)
EXTENDS Integers, Sequences, FiniteSets, TLC

VARIABLES
  markdown,            \* the argument of parseMarkdown
  pc,                  \* position in the running program
  lines,               \* const lines
  index,               \* number of forEach iterations already run
  mdNodes,             \* the MarkdownNode objects (0 is `root`)
  stack,               \* let stack
  result,              \* what the exported parseMarkdown returned
  childCountByParent,  \* App parseMarkdown: let childCountByParent
  lastNodeAtLevel,     \* App parseMarkdown: let lastNodeAtLevel
  appNodes,            \* App parseMarkdown: the NodeDataType objects
  root,                \* App parseMarkdown: let root (0 is null)
  mindMapData,         \* what App's parseMarkdown returned
  expandedNodes,       \* App: useState Map, in insertion order
  nodes,               \* App: useNodesState
  edges,               \* App: useEdgesState
  line,                \* parseLine: its argument
  parsed               \* parseLine: its result

vars == <<markdown, pc, lines, index, mdNodes, stack, result,
          childCountByParent, lastNodeAtLevel, appNodes, root, mindMapData,
          expandedNodes, nodes, edges, line, parsed>>

parserVars == <<markdown, pc, lines, index, mdNodes, stack, result,
                childCountByParent, lastNodeAtLevel, appNodes, root, mindMapData>>
uiVars == <<expandedNodes, nodes, edges>>
lineVars == <<line, parsed>>

-----------------------------------------------------------------------------
(* Bounds of the model *)

MaxLines == 4
MaxLevel == 3

-----------------------------------------------------------------------------
(* JavaScript values *)

undefined == <<>>
Some(v) == <<v>>
NaN == <<>>
Num(v) == <<v>>

\* number - number, NaN when either side is not a number
Sub(a, b) == IF a = NaN THEN NaN ELSE Num(a[1] - b)
Add(a, b) == IF a = NaN THEN NaN ELSE Num(a[1] + b)

-----------------------------------------------------------------------------
(* String primitives *)

Whitespace == {" ", "\t", "\n", "\r"}
LineTerminators == {"\n", "\r"}
HexDigits == {"0", "1", "2", "3", "4", "5", "6", "7", "8", "9",
              "a", "b", "c", "d", "e", "f", "A", "B", "C", "D", "E", "F"}

RECURSIVE trimStart(_)
trimStart(s) ==
  IF s # <<>> /\ Head(s) \in Whitespace THEN trimStart(Tail(s)) ELSE s

RECURSIVE trimEnd(_)
trimEnd(s) ==
  IF s # <<>> /\ s[Len(s)] \in Whitespace
    THEN trimEnd(SubSeq(s, 1, Len(s) - 1))
    ELSE s

trim(s) == trimEnd(trimStart(s))

RECURSIVE split(_)
split(s) ==
  IF \E i \in 1..Len(s) : s[i] = "\n"
    THEN LET i == CHOOSE k \in 1..Len(s) :
                    s[k] = "\n" /\ \A j \in 1..(k - 1) : s[j] # "\n"
         IN <<SubSeq(s, 1, i - 1)>> \o split(SubSeq(s, i + 1, Len(s)))
    ELSE <<s>>

RECURSIVE filterNonBlank(_)
filterNonBlank(ls) ==
  IF ls = <<>> THEN <<>>
  ELSE IF trim(Head(ls)) # <<>>
    THEN <<Head(ls)>> \o filterNonBlank(Tail(ls))
    ELSE filterNonBlank(Tail(ls))

RECURSIVE headingLevel(_)
headingLevel(s) ==
  IF s # <<>> /\ Head(s) = "#" THEN 1 + headingLevel(Tail(s)) ELSE 0

stripHeading(s) ==
  LET n == headingLevel(s)
  IN IF n = 0 THEN s ELSE trimStart(SubSeq(s, n + 1, Len(s)))

RECURSIVE repeat(_, _)
repeat(c, n) == IF n <= 0 THEN <<>> ELSE <<c>> \o repeat(c, n - 1)

RECURSIVE join(_)
join(ls) ==
  IF ls = <<>> THEN <<>>
  ELSE IF Len(ls) = 1 THEN ls[1]
  ELSE ls[1] \o <<"\n">> \o join(Tail(ls))

-----------------------------------------------------------------------------
(* The exported parseMarkdown (stack-based) *)

xSpacing == 200
ySpacing == 100

Root == [level |-> -1, content |-> <<"R", "o", "o", "t">>, children |-> <<>>]

RECURSIVE popStack(_, _, _)
popStack(stk, objs, level) ==
  IF Len(stk) > 1 /\ objs[stk[Len(stk)]].level >= level
    THEN popStack(SubSeq(stk, 1, Len(stk) - 1), objs, level)
    ELSE stk

\* variant of push: children.unshift(node)
unshift(children, node) == <<node>> \o children

\* lines 29, 170: children.push(node)
push(children, node) == Append(children, node)

\* one iteration of lines.forEach: the new arena and the new stack
forEachLine(objs, stk, ln, n) ==
  LET level == headingLevel(ln)
      content == trim(stripHeading(ln))
      node == [level |-> level, content |-> content, children |-> <<>>]
      popped == popStack(stk, objs, level)
      top == popped[Len(popped)]
      objs2 == [i \in (DOMAIN objs) \cup {n} |->
                  IF i = n THEN node
                  ELSE IF i = top
                    THEN [objs[i] EXCEPT !.children = push(@, n)]
                    ELSE objs[i]]
  IN [mdNodes |-> objs2, stack |-> Append(popped, n)]

nodeId(level, idx) == <<"node", level, idx>>
xOf(level) == level * xSpacing
\* variant of yOffset: level * ySpacing, the depth in place of the index
yOffsetByLevel(level, idx) == level * ySpacing

yOffset(level, idx) == idx * ySpacing

RECURSIVE convertToMindMap(_, _, _, _)
convertToMindMap(objs, n, level, idx) ==
  LET node == objs[n]
      self == [id |-> nodeId(level, idx),
               label |-> node.content,
               position |-> [x |-> xOf(level), y |-> yOffset(level, idx)],
               children |-> node.children]
  IN {<<n, self>>} \cup
     UNION {convertToMindMap(objs, node.children[i], level + 1, i - 1) :
              i \in 1..Len(node.children)}

AsArena(pairs) ==
  [n \in {p[1] : p \in pairs} |-> (CHOOSE p \in pairs : p[1] = n)[2]]

NoResult == [status |-> "none", root |-> 0, tree |-> <<>>]

-----------------------------------------------------------------------------
(* The App module's parseMarkdown (two passes over the lines) *)

App_xSpacing == 250
App_ySpacing == 80

Undefined == <<"u", "n", "d", "e", "f", "i", "n", "e", "d">>
DefaultColor == <<"#", "2", "1", "2", "5", "2", "9">>

Get(map, k) == IF k \in DOMAIN map THEN Some(map[k]) ELSE undefined
Put(map, k, v) == [i \in (DOMAIN map) \cup {k} |-> IF i = k THEN v ELSE map[i]]

\* /\[(#[A-Fa-f0-9]{6})\]/ matching at position i
colorAt(s, i) ==
  /\ i + 8 <= Len(s)
  /\ s[i] = "["
  /\ s[i + 1] = "#"
  /\ \A k \in 2..7 : s[i + k] \in HexDigits
  /\ s[i + 8] = "]"

\* line.match(/\[(#[A-Fa-f0-9]{6})\]/): group 1 of the leftmost match
RECURSIVE colorMatchFrom(_, _)
colorMatchFrom(s, i) ==
  IF i > Len(s) THEN undefined
  ELSE IF colorAt(s, i) THEN Some(SubSeq(s, i + 1, i + 7))
  ELSE colorMatchFrom(s, i + 1)

colorMatch(s) == colorMatchFrom(s, 1)

\* the first position at or after i that holds no whitespace (greedy \s*)
RECURSIVE skipSpace(_, _)
skipSpace(s, i) ==
  IF i <= Len(s) /\ s[i] \in Whitespace THEN skipSpace(s, i + 1) ELSE i

\* the first position k >= i with s[k] = c reached over non-terminators, or 0
RECURSIVE lazyUpTo(_, _, _)
lazyUpTo(s, i, c) ==
  IF i > Len(s) THEN 0
  ELSE IF s[i] = c THEN i
  ELSE IF s[i] \in LineTerminators THEN 0
  ELSE lazyUpTo(s, i + 1, c)

\* whether (.*?)\)$ can match from position i: the rest is free of line
\* terminators and the string ends in ")"
toEndParen(s, i) ==
  /\ i <= Len(s)
  /\ s[Len(s)] = ")"
  /\ \A k \in i..(Len(s) - 1) : s[k] \notin LineTerminators

\* line.match(/\((.*?)\)$/): group 1 of the leftmost match
RECURSIVE edgeLabelMatchFrom(_, _)
edgeLabelMatchFrom(s, i) ==
  IF i > Len(s) THEN undefined
  ELSE IF s[i] = "(" /\ toEndParen(s, i + 1)
    THEN Some(SubSeq(s, i + 1, Len(s) - 1))
  ELSE edgeLabelMatchFrom(s, i + 1)

edgeLabelMatch(s) == edgeLabelMatchFrom(s, 1)

\* end of a match of /\s*\[.*?\]/ that starts at position i, or 0
bracketMatchEnd(s, i) ==
  LET j == skipSpace(s, i)
  IN IF j <= Len(s) /\ s[j] = "[" THEN lazyUpTo(s, j + 1, "]") ELSE 0

\* .replace(/\s*\[.*?\]/g, '')
RECURSIVE removeBracketsFrom(_, _)
removeBracketsFrom(s, i) ==
  IF i > Len(s) THEN <<>>
  ELSE LET e == bracketMatchEnd(s, i)
       IN IF e > 0 THEN removeBracketsFrom(s, e + 1)
          ELSE <<s[i]>> \o removeBracketsFrom(s, i + 1)

\* variant of removeBrackets: .replace(/\s*\[.*?\]/, ''), without the g flag
RECURSIVE removeFirstBracketFrom(_, _)
removeFirstBracketFrom(s, i) ==
  IF i > Len(s) THEN <<>>
  ELSE LET e == bracketMatchEnd(s, i)
       IN IF e > 0 THEN SubSeq(s, e + 1, Len(s))
          ELSE <<s[i]>> \o removeFirstBracketFrom(s, i + 1)

removeFirstBracket(s) == removeFirstBracketFrom(s, 1)

removeBrackets(s) == removeBracketsFrom(s, 1)

\* whether /\s*\(.*?\)$/ matches starting at position i
parenMatchAt(s, i) ==
  LET j == skipSpace(s, i)
  IN j <= Len(s) /\ s[j] = "(" /\ toEndParen(s, j + 1)

\* .replace(/\s*\(.*?\)$/g, '')
RECURSIVE removeTrailingParenFrom(_, _)
removeTrailingParenFrom(s, i) ==
  IF i > Len(s) THEN s
  ELSE IF parenMatchAt(s, i) THEN SubSeq(s, 1, i - 1)
  ELSE removeTrailingParenFrom(s, i + 1)

removeTrailingParen(s) == removeTrailingParenFrom(s, 1)

\* lines 94-105
parseLine(s) ==
  LET cm == colorMatch(s)
      em == edgeLabelMatch(s)
  IN [label |-> trim(stripHeading(removeTrailingParen(removeBrackets(s)))),
      color |-> IF cm # undefined THEN cm[1] ELSE DefaultColor,
      edgeLabel |-> em]

UpperCase == <<"A", "B", "C", "D", "E", "F", "G", "H", "I", "J", "K", "L", "M",
               "N", "O", "P", "Q", "R", "S", "T", "U", "V", "W", "X", "Y", "Z">>
LowerCase == <<"a", "b", "c", "d", "e", "f", "g", "h", "i", "j", "k", "l", "m",
               "n", "o", "p", "q", "r", "s", "t", "u", "v", "w", "x", "y", "z">>

toLowerCase(s) ==
  [i \in 1..Len(s) |->
     IF \E k \in 1..26 : UpperCase[k] = s[i]
       THEN LowerCase[CHOOSE k \in 1..26 : UpperCase[k] = s[i]]
       ELSE s[i]]

\* .replace(/\s+/g, '-')
RECURSIVE hyphenate(_, _)
hyphenate(s, i) ==
  IF i > Len(s) THEN <<>>
  ELSE IF s[i] \in Whitespace THEN <<"-">> \o hyphenate(s, skipSpace(s, i))
  ELSE <<s[i]>> \o hyphenate(s, i + 1)

\* line 129
slug(label) == hyphenate(toLowerCase(label), 1)

\* `${v}` for a string-or-undefined v
Interpolate(v) == IF v = undefined THEN Undefined ELSE v[1]

\* variant of parentLevelOf: the node's own level
sameLevel(level) == level

\* lines 112, 135, 166
parentLevelOf(level) == level - 1

\* lines 115, 137
parentKey(pl, parentLabel) == repeat("#", pl) \o <<"-">> \o Interpolate(parentLabel)

\* lines 108-118, one iteration
firstPassLine(counts, last, objs, ln) ==
  LET level == headingLevel(ln)
      pl == parentLevelOf(level)
      p == Get(last, pl)
      key == parentKey(pl, IF p = undefined THEN undefined ELSE Some(objs[p[1]].label))
      old == Get(counts, key)
  IN IF level = 0 \/ ~(pl > 0) THEN counts
     ELSE Put(counts, key, (IF old = undefined THEN 0 ELSE old[1]) + 1)

\* variant of App_xOf: level * ySpacing, the wrong spacing
App_xOfVertical(level) == level * App_ySpacing

\* line 156
App_xOf(level) == level * App_xSpacing

\* lines 131-148; parent is Some(index) or undefined
yPosition(level, parent, objs) ==
  IF level = 1 THEN Num(App_ySpacing * 2)
  ELSE LET childIndex == IF parent = undefined THEN 0
                         ELSE Len(objs[parent[1]].children)
           parentY == IF parent = undefined THEN NaN
                      ELSE objs[parent[1]].position.y
       IN IF childIndex = 0 THEN Sub(parentY, App_ySpacing)
          ELSE Add(parentY, childIndex * App_ySpacing)

\* lines 124-174, one iteration on line n
secondPassLine(last, objs, rt, ln, n) ==
  LET level == headingLevel(ln)
      p == parseLine(ln)
      parent == Get(last, parentLevelOf(level))
      node == [id |-> slug(p.label),
               label |-> p.label,
               color |-> p.color,
               edgeLabel |-> p.edgeLabel,
               position |-> [x |-> App_xOf(level),
                             y |-> yPosition(level, parent, objs)],
               children |-> <<>>]
      attached == IF level = 1 \/ parent = undefined THEN objs
                  ELSE [objs EXCEPT ![parent[1]].children = push(@, n)]
  IN IF level = 0
       THEN [lastNodeAtLevel |-> last, appNodes |-> objs, root |-> rt]
       ELSE [lastNodeAtLevel |-> Put(last, level, n),
             appNodes |-> Put(attached, n, node),
             root |-> IF level = 1 THEN n ELSE rt]

\* lines 176-182
FallbackRoot ==
  [id |-> <<"n", "y", "c">>,
   label |-> <<"N", "Y", "C">>,
   color |-> <<"#", "4", "1", "6", "9", "e", "1">>,
   edgeLabel |-> undefined,
   position |-> [x |-> 250, y |-> Num(250)],
   children |-> <<>>]

-----------------------------------------------------------------------------
(* Inputs *)

Hashes(n) == repeat("#", n)
Heading(level, label) == Hashes(level) \o <<" ">> \o label

LineSet ==
  {Heading(l, <<"A">>) : l \in 1..MaxLevel}
    \cup {Heading(2, <<"B", " ", "c">>), <<"t", "x", "t">>, <<" ">>}

Inputs ==
  {join(ls) : ls \in UNION {[1..n -> LineSet] : n \in 0..MaxLines}}

-----------------------------------------------------------------------------
(* Actions of the exported parseMarkdown *)

ParseInit ==
  /\ markdown \in Inputs
  /\ pc \in {"parseMarkdown", "App_parseMarkdown"}
  /\ lines = <<>>
  /\ index = 0
  /\ mdNodes = <<>>
  /\ stack = <<>>
  /\ result = NoResult
  /\ childCountByParent = <<>>
  /\ lastNodeAtLevel = <<>>
  /\ appNodes = <<>>
  /\ root = 0
  /\ mindMapData = NoResult

\* lines 15-18
parseMarkdown ==
  /\ pc = "parseMarkdown"
  /\ lines' = filterNonBlank(split(markdown))
  /\ mdNodes' = [i \in {0} |-> Root]
  /\ stack' = <<0>>
  /\ index' = 0
  /\ pc' = "forEach"
  /\ UNCHANGED <<markdown, result, childCountByParent, lastNodeAtLevel,
                 appNodes, root, mindMapData, uiVars, lineVars>>

\* lines 20-31, one iteration
forEach ==
  /\ pc = "forEach"
  /\ index < Len(lines)
  /\ LET r == forEachLine(mdNodes, stack, lines[index + 1], index + 1)
     IN /\ mdNodes' = r.mdNodes
        /\ stack' = r.stack
  /\ index' = index + 1
  /\ UNCHANGED <<markdown, pc, lines, result, childCountByParent,
                 lastNodeAtLevel, appNodes, root, mindMapData, uiVars, lineVars>>

\* line 49
return ==
  /\ pc = "forEach"
  /\ index = Len(lines)
  /\ result' =
       IF mdNodes[0].children = <<>>
         THEN [status |-> "TypeError", root |-> 0, tree |-> <<>>]
         ELSE [status |-> "ok",
               root |-> mdNodes[0].children[1],
               tree |-> AsArena(convertToMindMap(mdNodes, mdNodes[0].children[1], 0, 0))]
  /\ pc' = "done"
  /\ UNCHANGED <<markdown, lines, index, mdNodes, stack, childCountByParent,
                 lastNodeAtLevel, appNodes, root, mindMapData, uiVars, lineVars>>

-----------------------------------------------------------------------------
(* Actions of the App module's parseMarkdown *)

\* lines 86-91
App_parseMarkdown ==
  /\ pc = "App_parseMarkdown"
  /\ lines' = split(trim(markdown))
  /\ root' = 0
  /\ lastNodeAtLevel' = <<>>
  /\ childCountByParent' = <<>>
  /\ appNodes' = <<>>
  /\ index' = 0
  /\ pc' = "firstPass"
  /\ UNCHANGED <<markdown, mdNodes, stack, result, mindMapData, uiVars, lineVars>>

\* lines 108-118, one iteration
firstPass ==
  /\ pc = "firstPass"
  /\ index < Len(lines)
  /\ childCountByParent' =
       firstPassLine(childCountByParent, lastNodeAtLevel, appNodes, lines[index + 1])
  /\ index' = index + 1
  /\ UNCHANGED <<markdown, pc, lines, mdNodes, stack, result, lastNodeAtLevel,
                 appNodes, root, mindMapData, uiVars, lineVars>>

\* line 121
resetForSecondPass ==
  /\ pc = "firstPass"
  /\ index = Len(lines)
  /\ lastNodeAtLevel' = <<>>
  /\ index' = 0
  /\ pc' = "secondPass"
  /\ UNCHANGED <<markdown, lines, mdNodes, stack, result, childCountByParent,
                 appNodes, root, mindMapData, uiVars, lineVars>>

\* lines 124-174, one iteration
secondPass ==
  /\ pc = "secondPass"
  /\ index < Len(lines)
  /\ LET r == secondPassLine(lastNodeAtLevel, appNodes, root, lines[index + 1], index + 1)
     IN /\ lastNodeAtLevel' = r.lastNodeAtLevel
        /\ appNodes' = r.appNodes
        /\ root' = r.root
  /\ index' = index + 1
  /\ UNCHANGED <<markdown, pc, lines, mdNodes, stack, result, childCountByParent,
                 mindMapData, uiVars, lineVars>>

\* lines 176-182
App_return ==
  /\ pc = "secondPass"
  /\ index = Len(lines)
  /\ mindMapData' =
       [status |-> "ok",
        root |-> root,
        tree |-> IF root # 0 THEN appNodes ELSE Put(appNodes, 0, FallbackRoot)]
  /\ pc' = "done"
  /\ UNCHANGED <<markdown, lines, index, mdNodes, stack, result, childCountByParent,
                 lastNodeAtLevel, appNodes, root, uiVars, lineVars>>

Init ==
  /\ ParseInit
  /\ expandedNodes = <<>>
  /\ nodes = <<>>
  /\ edges = <<>>
  /\ line = <<>>
  /\ parsed = <<>>

Next ==
  \/ parseMarkdown \/ forEach \/ return
  \/ App_parseMarkdown \/ firstPass \/ resetForSecondPass \/ secondPass \/ App_return

Spec == Init /\ [][Next]_vars

-----------------------------------------------------------------------------
(* Reading a returned tree *)

\* the paths (child positions, 1-based) that lead from node n into its subtree
RECURSIVE PathsFrom(_, _)
PathsFrom(t, n) ==
  {<<>>} \cup
  UNION {{<<i>> \o p : p \in PathsFrom(t, t[n].children[i])} :
           i \in 1..Len(t[n].children)}

RECURSIVE NodeAt(_, _, _)
NodeAt(t, n, p) ==
  IF p = <<>> THEN n ELSE NodeAt(t, t[n].children[p[1]], Tail(p))

Returned1 == pc = "done" /\ result.status = "ok"
Returned2 == pc = "done" /\ mindMapData.status = "ok"

Paths1 == PathsFrom(result.tree, result.root)
Paths2 == PathsFrom(mindMapData.tree, mindMapData.root)
At1(p) == result.tree[NodeAt(result.tree, result.root, p)]
At2(p) == mindMapData.tree[NodeAt(mindMapData.tree, mindMapData.root, p)]
Index1(p) == NodeAt(result.tree, result.root, p)
Index2(p) == NodeAt(mindMapData.tree, mindMapData.root, p)

\* the input's lines and its heading lines (at least one leading #)
InputLines == split(markdown)
HeadingCount ==
  Cardinality({i \in 1..Len(InputLines) : headingLevel(InputLines[i]) > 0})

\* the entries each program makes nodes of, by position in `lines`
LevelOf(n) == headingLevel(lines[n])
Entries1 == 1..Len(lines)
Entries2 == {i \in 1..Len(lines) : LevelOf(i) > 0}

\* the nearest preceding entry with a strictly smaller level, 0 when none
NearestSmaller(E, n) ==
  LET S == {j \in E : j < n /\ LevelOf(j) < LevelOf(n)}
  IN IF S = {} THEN 0 ELSE CHOOSE j \in S : \A k \in S : k <= j

IsChildOf(t, parent, n) ==
  \E i \in 1..Len(t[parent].children) : t[parent].children[i] = n

-----------------------------------------------------------------------------
(* Claims *)

\* C1: every entry after the first is a child of the nearest preceding entry
\* with a strictly smaller level, level skips and level repeats included, in
\* both parsers.
C1_FoldsToNearestSmaller ==
  /\ (pc = "done" /\ result.status # "none") =>
       \A n \in Entries1 :
         NearestSmaller(Entries1, n) # 0 =>
           IsChildOf(mdNodes, NearestSmaller(Entries1, n), n)
  /\ Returned2 =>
       \A n \in Entries2 :
         NearestSmaller(Entries2, n) # 0 =>
           IsChildOf(appNodes, NearestSmaller(Entries2, n), n)

\* C2: on an input without heading lines parseMarkdown does not fail and
\* returns a root with no children: the defined fallback root where the parser
\* defines one.
C2_NoHeadingsGivesFallback ==
  (pc = "done" /\ HeadingCount = 0) =>
    /\ result.status # "none" =>
         /\ result.status = "ok"
         /\ result.tree[result.root].children = <<>>
    /\ mindMapData.status # "none" =>
         /\ mindMapData.root = 0
         /\ mindMapData.tree[0] = FallbackRoot

\* a well-formed outline: every non-blank line is a heading, the first heading
\* is the only level-1 heading, and no heading is more than one level deeper
\* than the heading before it
HeadingLevels ==
  LET RECURSIVE Collect(_)
      Collect(ls) ==
        IF ls = <<>> THEN <<>>
        ELSE IF headingLevel(Head(ls)) > 0
          THEN <<headingLevel(Head(ls))>> \o Collect(Tail(ls))
          ELSE Collect(Tail(ls))
  IN Collect(InputLines)

WellFormed ==
  /\ \A i \in 1..Len(InputLines) :
       trim(InputLines[i]) # <<>> => headingLevel(InputLines[i]) > 0
  /\ HeadingLevels # <<>>
  /\ HeadingLevels[1] = 1
  /\ \A i \in 2..Len(HeadingLevels) :
       HeadingLevels[i] >= 2 /\ HeadingLevels[i] <= HeadingLevels[i - 1] + 1

\* C3 as stated: on well-formed inputs the number of non-root nodes of the
\* returned tree equals the number of heading lines.
C3_NonRootCountIsHeadingCount ==
  (pc = "done" /\ WellFormed) =>
    /\ result.status # "none" =>
         result.status = "ok" /\ Cardinality(Paths1) - 1 = HeadingCount
    /\ mindMapData.status # "none" =>
         Cardinality(Paths2) - 1 = HeadingCount

\* C3 (amended): on well-formed inputs the number of nodes of the returned
\* tree, the root included, equals the number of heading lines, and every
\* heading line is the node of exactly one path.
C3_NodeCountIsHeadingCount ==
  (pc = "done" /\ WellFormed) =>
    /\ result.status # "none" =>
         /\ result.status = "ok"
         /\ Cardinality(Paths1) = HeadingCount
         /\ \A n \in Entries1 :
              Cardinality({p \in Paths1 : Index1(p) = n}) = 1
    /\ mindMapData.status # "none" =>
         /\ Cardinality(Paths2) = HeadingCount
         /\ \A n \in Entries2 :
              Cardinality({p \in Paths2 : Index2(p) = n}) = 1

C3_Witness ==
  /\ Returned2
  /\ WellFormed
  /\ HeadingCount >= 4
  /\ \E p \in Paths2 : Len(p) = 2

\* C4: when the input has a heading line, the returned root is an entry of
\* the shallowest level and every other heading line is below it.
C4_RootIsShallowest ==
  (pc = "done" /\ HeadingCount >= 1) =>
    /\ result.status # "none" =>
         /\ result.status = "ok"
         /\ \A n \in Entries1 :
              /\ LevelOf(n) > 0 => LevelOf(n) >= LevelOf(result.root)
              /\ LevelOf(n) > 0 => \E p \in Paths1 : Index1(p) = n
    /\ mindMapData.status # "none" =>
         /\ mindMapData.root # 0
         /\ \A n \in Entries2 :
              /\ LevelOf(n) >= LevelOf(mindMapData.root)
              /\ \E p \in Paths2 : Index2(p) = n

\* C5: no two nodes of a returned tree carry the same id.
C5_IdsUnique ==
  /\ Returned1 =>
       \A p, q \in Paths1 : p # q => At1(p).id # At1(q).id
  /\ Returned2 =>
       \A p, q \in Paths2 : p # q => At2(p).id # At2(q).id

C7_SiblingsDifferInY ==
  /\ Returned1 =>
       \A p \in Paths1 :
         \A i, j \in 1..Len(At1(p).children) :
           i # j => At1(p \o <<i>>).position.y # At1(p \o <<j>>).position.y
  /\ Returned2 =>
       \A p \in Paths2 :
         \A i, j \in 1..Len(At2(p).children) :
           i # j => At2(p \o <<i>>).position.y # At2(p \o <<j>>).position.y

C7_Witness ==
  /\ Returned2
  /\ \E p \in Paths2 : Len(At2(p).children) >= 3

\* C8: the children of every node are listed in the order of their lines.
C8_ChildrenInSourceOrder ==
  /\ Returned1 =>
       \A p \in Paths1 :
         \A i, j \in 1..Len(At1(p).children) :
           i < j => At1(p).children[i] < At1(p).children[j]
  /\ Returned2 =>
       \A p \in Paths2 :
         \A i, j \in 1..Len(At2(p).children) :
           i < j => At2(p).children[i] < At2(p).children[j]

C8_Witness ==
  /\ Returned1
  /\ \E p \in Paths1 :
       /\ Len(At1(p).children) >= 2
       /\ \E q \in Paths1 : Len(q) = Len(p) + 2

-----------------------------------------------------------------------------
(* parseLine on its own: one line in, its fields out *)

MaxSegments == 3

ColorTagA == <<"[", "#", "F", "F", "0", "0", "a", "a", "]">>
ColorTagB == <<"[", "#", "0", "0", "9", "9", "c", "c", "]">>

Segments ==
  {<<"A">>, <<" ">>, ColorTagA, ColorTagB, <<"[", "x", "]">>, <<"(", "e", ")">>,
   <<"[">>, <<"]">>, <<"(">>, <<")">>}

RECURSIVE concat(_)
concat(ss) == IF ss = <<>> THEN <<>> ELSE Head(ss) \o concat(Tail(ss))

LineInputs ==
  {Hashes(l) \o concat(ss) :
     l \in 1..MaxLevel,
     ss \in UNION {[1..n -> Segments] : n \in 0..MaxSegments}}

NoUi ==
  /\ expandedNodes = <<>>
  /\ nodes = <<>>
  /\ edges = <<>>

LineInit ==
  /\ line \in LineInputs
  /\ parsed = <<>>
  /\ pc \in {"parseLine", "forEachBody"}
  /\ markdown = <<>>
  /\ lines = <<>>
  /\ index = 0
  /\ mdNodes = <<>>
  /\ stack = <<>>
  /\ result = NoResult
  /\ childCountByParent = <<>>
  /\ lastNodeAtLevel = <<>>
  /\ appNodes = <<>>
  /\ root = 0
  /\ mindMapData = NoResult
  /\ NoUi

\* lines 94-105 applied to `line`
App_parseLine ==
  /\ pc = "parseLine"
  /\ parsed' = parseLine(line)
  /\ pc' = "parsedLine"
  /\ UNCHANGED <<line, markdown, lines, index, mdNodes, stack, result,
                 childCountByParent, lastNodeAtLevel, appNodes, root,
                 mindMapData, uiVars>>

\* lines 21-23 applied to `line`
forEachBody ==
  /\ pc = "forEachBody"
  /\ parsed' = [level |-> headingLevel(line),
                content |-> trim(stripHeading(line)),
                children |-> <<>>]
  /\ pc' = "madeNode"
  /\ UNCHANGED <<line, markdown, lines, index, mdNodes, stack, result,
                 childCountByParent, lastNodeAtLevel, appNodes, root,
                 mindMapData, uiVars>>

LineNext == App_parseLine \/ forEachBody

SpecLine == LineInit /\ [][LineNext]_vars

-----------------------------------------------------------------------------
(* What C9 says of a line, stated over positions of the text *)

Positions(s) == 1..Len(s)
Least(S) == CHOOSE i \in S : \A j \in S : i <= j
Greatest(S) == CHOOSE i \in S : \A j \in S : j <= i

\* the text of s at the positions K, in order
Keep(s, K) ==
  [k \in 1..Cardinality(K) |->
     s[CHOOSE p \in K : Cardinality({q \in K : q <= p}) = k]]

Trimmed(s) ==
  LET N == {i \in Positions(s) : s[i] \notin Whitespace}
  IN IF N = {} THEN <<>> ELSE SubSeq(s, Least(N), Greatest(N))

\* without the leading # run and the whitespace after it
WithoutHeading(s) ==
  LET H == {i \in Positions(s) : \A k \in 1..i : s[k] = "#"}
      B == {i \in Positions(s) : i \notin H /\ s[i] \notin Whitespace}
  IN IF H = {} THEN s
     ELSE IF B = {} THEN <<>>
     ELSE SubSeq(s, Least(B), Len(s))

IsColorTag(w) ==
  /\ Len(w) = 9
  /\ w[1] = "[" /\ w[2] = "#" /\ w[9] = "]"
  /\ \A k \in 3..8 : w[k] \in HexDigits

ColorTags(s) ==
  {i \in Positions(s) : i + 8 <= Len(s) /\ IsColorTag(SubSeq(s, i, i + 8))}

\* the bracketed groups of s, read left to right: a "[" outside every earlier
\* group that has a "]" after it opens a group that runs to the first "]"
FirstClose(s, o) == Least({q \in Positions(s) : q > o /\ s[q] = "]"})

Groups(s) ==
  LET Opens[i \in Positions(s)] ==
        /\ s[i] = "["
        /\ \E q \in Positions(s) : q > i /\ s[q] = "]"
        /\ ~ \E o \in 1..(i - 1) : Opens[o] /\ FirstClose(s, o) >= i
  IN {<<o, FirstClose(s, o)>> : o \in {i \in Positions(s) : Opens[i]}}

TagGroups(s) == {<<i, i + 8>> : i \in ColorTags(s)}

\* s without the groups G and without the whitespace that leads up to one
WithoutGroups(s, G) ==
  LET Inside(p) == \E g \in G : g[1] <= p /\ p <= g[2]
      Leads(p) == \E g \in G : p < g[1] /\ \A k \in p..(g[1] - 1) : s[k] \in Whitespace
  IN Keep(s, {p \in Positions(s) : ~Inside(p) /\ ~Leads(p)})

\* the parenthesised group that ends s starts at the first "(" of s
EndsInGroup(s) ==
  /\ s # <<>>
  /\ s[Len(s)] = ")"
  /\ \E i \in 1..(Len(s) - 1) : s[i] = "("

FirstParen(s) == Least({i \in Positions(s) : s[i] = "("})

WithoutTrailingGroup(s) ==
  IF EndsInGroup(s)
    THEN LET N == {i \in 1..(FirstParen(s) - 1) : s[i] \notin Whitespace}
         IN IF N = {} THEN <<>> ELSE SubSeq(s, 1, Greatest(N))
    ELSE s

LabelWithout(s, G) ==
  Trimmed(WithoutHeading(WithoutTrailingGroup(WithoutGroups(s, G))))

ColorOf(s) ==
  IF ColorTags(s) = {} THEN DefaultColor
  ELSE SubSeq(s, Least(ColorTags(s)) + 1, Least(ColorTags(s)) + 7)

EdgeLabelOf(s) ==
  IF EndsInGroup(s)
    THEN Some(SubSeq(s, FirstParen(s) + 1, Len(s) - 1))
    ELSE undefined

-----------------------------------------------------------------------------
(* The App component: what a click leaves on display *)

\* lines 73-83
markdownInput ==
     <<"\n">>
  \o <<"#", " ", "n", "y", "c", " ", "[", "#", "4", "1", "6", "9", "e",
       "1", "]", "\n">>
  \o <<"#", "#", " ", "t", "r", "a", "d", "i", "t", "i", "o", "n", "a",
       "l", " ", "c", "o", "m", "p", "u", "t", "e", " ", "[", "#", "8",
       "0", "8", "0", "8", "0", "]", " ", "(", "j", "u", "s", "t", " ",
       "a", "n", "o", "t", "h", "e", "r", " ", "c", "l", "o", "u", "d",
       ")", "\n">>
  \o <<"#", "#", " ", "d", "a", "t", "a", " ", "&", " ", "a", "i", " ",
       "[", "#", "4", "1", "6", "9", "e", "1", "]", " ", "(", "d", "i",
       "f", "f", "e", "r", "e", "n", "t", "i", "a", "t", "o", "r", ")",
       "\n">>
  \o <<"#", "#", "#", " ", "G", "e", "n", "A", "I", " ", "-", " ", "M",
       "y", "C", "i", "t", "y", " ", "[", "#", "4", "c", "d", "0", "3",
       "8", "]", " ", "(", "w", "e", "n", "t", " ", "w", "e", "l", "l",
       ")", "\n">>
  \o <<"#", "#", "#", "#", " ", "M", "i", "c", "r", "o", "s", "o", "f",
       "t", " ", "[", "#", "2", "1", "2", "5", "2", "9", "]", " ", "(",
       "h", "e", "a", "d", "-", "t", "o", "-", "h", "e", "a", "d", ")",
       "\n">>
  \o <<"#", "#", "#", "#", " ", "C", "E", " ", "E", "n", "g", "a", "g",
       "e", "m", "e", "n", "t", " ", "[", "#", "F", "F", "0", "0", "0",
       "0", "]", " ", "(", "w", "e", "n", "t", " ", "w", "e", "l", "l",
       ")", "\n">>
  \o <<"#", "#", "#", "#", " ", "S", "h", "o", "w", "c", "a", "s", "i",
       "n", "g", " ", "P", "l", "a", "t", "f", "o", "r", "m", " ", "[",
       "#", "2", "1", "2", "5", "2", "9", "]", " ", "(", "D", "e", "m",
       "o", ")", "\n">>
  \o <<"#", "#", "#", " ", "V", "i", "s", "i", "o", "n", " ", "A", "I",
       " ", "[", "#", "2", "1", "2", "5", "2", "9", "]", " ", "(", "C",
       "o", "m", "p", "u", "t", "e", "r", " ", "V", "i", "s", "i", "o",
       "n", ")", "\n">>
  \o <<"#", "#", "#", " ", "N", "e", "w", " ", "N", "o", "d", "e", " ",
       "[", "#", "2", "1", "2", "5", "2", "9", "]", " ", "(", "I", "n",
       "n", "o", "v", "a", "t", "i", "o", "n", ")", "\n">>

RECURSIVE secondPassFrom(_, _, _, _, _)
secondPassFrom(last, objs, rt, ls, n) ==
  IF n > Len(ls) THEN [appNodes |-> objs, root |-> rt]
  ELSE LET r == secondPassLine(last, objs, rt, ls[n], n)
       IN secondPassFrom(r.lastNodeAtLevel, r.appNodes, r.root, ls, n + 1)

\* line 186: parseMarkdown(markdownInput), the passes run to the end
App_parse(md) ==
  LET r == secondPassFrom(<<>>, <<>>, 0, split(trim(md)), 1)
  IN [status |-> "ok",
      root |-> r.root,
      tree |-> IF r.root # 0 THEN r.appNodes ELSE Put(r.appNodes, 0, FallbackRoot)]

\* lines 207-215: the first node with this id, depth first; 0 is null
RECURSIVE findNode(_, _, _)
findNode(t, n, id) ==
  IF t[n].id = id THEN n
  ELSE LET found == [i \in 1..Len(t[n].children) |-> findNode(t, t[n].children[i], id)]
           hits == {i \in 1..Len(t[n].children) : found[i] # 0}
       IN IF hits = {} THEN 0
          ELSE found[CHOOSE i \in hits : \A j \in hits : i <= j]

findNodeData(data, id) == findNode(data.tree, data.root, id)

\* lines 219-232
createNode(nodeData) ==
  [id |-> nodeData.id,
   label |-> nodeData.label,
   position |-> nodeData.position,
   backgroundColor |-> nodeData.color]

\* Map operations; a Map keeps its keys in insertion order
MapHas(m, k) == \E i \in 1..Len(m) : m[i][1] = k
MapGet(m, k) == m[CHOOSE i \in 1..Len(m) : m[i][1] = k][2]
MapSet(m, k, v) ==
  IF MapHas(m, k)
    THEN [i \in 1..Len(m) |-> IF m[i][1] = k THEN <<k, v>> ELSE m[i]]
    ELSE Append(m, <<k, v>>)
MapDelete(m, k) == SelectSeq(m, LAMBDA e : e[1] # k)

\* lines 238-251: the updater passed to setExpandedNodes
toggle(prev, id, childCount) ==
  IF MapHas(prev, id)
    THEN IF MapGet(prev, id) < childCount - 1
           THEN MapSet(prev, id, MapGet(prev, id) + 1)
           ELSE MapDelete(prev, id)
    ELSE MapSet(prev, id, 0)

\* lines 274-301: the children 0..level of one expanded node
RECURSIVE shownChildren(_, _, _, _)
shownChildren(data, n, level, i) ==
  IF i <= level /\ i < Len(data.tree[n].children)
    THEN <<data.tree[n].children[i + 1]>> \o shownChildren(data, n, level, i + 1)
    ELSE <<>>

\* lines 255-303: newNodes and newEdges
RECURSIVE rebuild(_, _, _)
rebuild(data, expanded, k) ==
  IF k > Len(expanded) THEN [nodes |-> <<>>, edges |-> <<>>]
  ELSE LET key == expanded[k][1]
           n == findNodeData(data, key)
           kids == IF n = 0 THEN <<>> ELSE shownChildren(data, n, expanded[k][2], 0)
           rest == rebuild(data, expanded, k + 1)
       IN [nodes |-> [i \in 1..Len(kids) |-> createNode(data.tree[kids[i]])] \o rest.nodes,
           edges |-> [i \in 1..Len(kids) |->
                        [id |-> key \o <<"-">> \o data.tree[kids[i]].id,
                         source |-> key,
                         target |-> data.tree[kids[i]].id,
                         label |-> data.tree[kids[i]].edgeLabel]] \o rest.edges]

effectNodes(data, expanded) ==
  <<createNode(data.tree[data.root])>> \o rebuild(data, expanded, 1).nodes
effectEdges(data, expanded) == rebuild(data, expanded, 1).edges

UiInit ==
  /\ mindMapData = App_parse(markdownInput)
  /\ expandedNodes = <<>>
  /\ nodes = effectNodes(App_parse(markdownInput), <<>>)
  /\ edges = <<>>
  /\ pc = "App"
  /\ markdown = markdownInput
  /\ lines = <<>>
  /\ index = 0
  /\ mdNodes = <<>>
  /\ stack = <<>>
  /\ result = NoResult
  /\ childCountByParent = <<>>
  /\ lastNodeAtLevel = <<>>
  /\ appNodes = <<>>
  /\ root = 0
  /\ line = <<>>
  /\ parsed = <<>>

\* lines 234-252 followed by the effect of lines 254-307
onNodeClick ==
  /\ pc = "App"
  /\ \E k \in 1..Len(nodes) :
       LET currentNode == findNodeData(mindMapData, nodes[k].id)
           childCount == IF currentNode = 0 THEN 0
                         ELSE Len(mindMapData.tree[currentNode].children)
           next == IF childCount = 0 THEN expandedNodes
                   ELSE toggle(expandedNodes, nodes[k].id, childCount)
       IN /\ expandedNodes' = next
          /\ nodes' = effectNodes(mindMapData, next)
          /\ edges' = effectEdges(mindMapData, next)
  /\ UNCHANGED <<parserVars, lineVars>>

UiNext == onNodeClick

SpecUI == UiInit /\ [][UiNext]_vars

NodeIds == {nodes[i].id : i \in 1..Len(nodes)}

\* C10: after any sequence of clicks on displayed nodes, every displayed edge
\* has its source and its target among the displayed nodes.
C10_EdgesJoinDisplayedNodes ==
  pc = "App" =>
    \A i \in 1..Len(edges) :
      edges[i].source \in NodeIds /\ edges[i].target \in NodeIds
====
